---- MODULE Spec2Model ----
(***************************************************************************)
(* Model of src/types.ts of justmessage-rpc: the RPC message envelope, the *)
(* duck-typing classifier isRPCMessage, and the two default transport      *)
(* bindings defaultReceivable (window 'message' listeners) and             *)
(* defaultPostable (window.parent.postMessage).                            *)
(***************************************************************************)
EXTENDS Integers, Sequences, FiniteSets, TLC

VARIABLES
    candidate,    \* the value handed to isRPCMessage
    verdict,      \* "pending" before the call; then "true", "false" or "TypeError"
    listeners,    \* window's 'message' event listener list, in registration order
    subs,         \* one record per recvMessage call made so far (index = subscription)
    events,       \* the MessageEvents emitted on window so far
    queue,        \* listeners of the event being dispatched that are still to be visited
    calls,        \* every callback invocation so far, in order
    posted,       \* every window.parent.postMessage call so far, in order
    lastCall,     \* arguments of the latest IPostable.postMessage call
    callCounter   \* per sender: the next sequence counter the RPC layer assigns

vars == <<candidate, verdict, listeners, subs, events, queue, calls, posted,
          lastCall, callCounter>>

classifierVars == <<candidate, verdict>>
receivableVars == <<listeners, subs, events, queue, calls>>
postableVars == <<posted, lastCall, callCounter>>

----------------------------------------------------------------------------
(* JavaScript values.  A value is a record [kind, n, s]; kind is the       *)
(* runtime kind, n the number of a "number", s the text of a "string",     *)
(* "boolean" or NaN.  kind "absent" marks a property the object lacks.     *)

Val(kind, n, s) == [kind |-> kind, n |-> n, s |-> s]

Absent == Val("absent", 0, "")
Undefined == Val("undefined", 0, "")
Null == Val("null", 0, "")
Num(n) == Val("number", n, "")
NaN == Val("number", 0, "NaN")
Str(s) == Val("string", 0, s)
Bool(s) == Val("boolean", 0, s)
EmptyObject == Val("object", 0, "{}")
TypeError == Val("TypeError", 0, "")

\* The own properties of a non-object: none.
NoProps == [type |-> Absent, counter |-> Absent, serviceID |-> Absent, id |-> Absent]

\* A candidate: a top-level value together with its own properties.
Data(kind, n, s, props) == [kind |-> kind, n |-> n, s |-> s, props |-> props]

Prim(v) == Data(v.kind, v.n, v.s, NoProps)

Obj(kind, type, counter, serviceID, id) ==
    Data(kind, 0, "", [type |-> type, counter |-> counter,
                       serviceID |-> serviceID, id |-> id])

\* JavaScript's typeof: null and arrays are "object".
TypeOf(v) ==
    CASE v.kind = "null" -> "object"
      [] v.kind = "array" -> "object"
      [] v.kind = "absent" -> "undefined"
      [] OTHER -> v.kind

\* data[name]: a TypeError on null and undefined, undefined when the
\* property is missing (always so on a primitive), else the property.
GetProp(data, name) ==
    IF data.kind \in {"null", "undefined"} THEN TypeError
    ELSE IF data.kind \in {"object", "array"} /\ data.props[name].kind # "absent"
         THEN data.props[name]
         ELSE Undefined

\* v === 'text'
StrictEqualsString(v, text) == v.kind = "string" /\ v.s = text

\* Mutants of isRPCMessage: plausible slips in the guard.
IsRPCMessageDeep(data) ==
    IF TypeOf(data) # "object" THEN "false"
    ELSE LET type == GetProp(data, "type") IN
         IF type.kind = "TypeError" THEN "TypeError"
         ELSE IF ~(StrictEqualsString(type, "method") \/ StrictEqualsString(type, "reply"))
              THEN "false"
              ELSE IF TypeOf(GetProp(data, "counter")) = "number"
                      /\ TypeOf(GetProp(data, "id")) = "number"
                   THEN "true" ELSE "false"

IsRPCMessageNoCounter(data) ==
    IF TypeOf(data) # "object" THEN "false"
    ELSE LET type == GetProp(data, "type") IN
         IF type.kind = "TypeError" THEN "TypeError"
         ELSE IF ~(StrictEqualsString(type, "method") \/ StrictEqualsString(type, "reply"))
              THEN "false"
              ELSE IF TypeOf(GetProp(data, "counter")) # "undefined"
                   THEN "true" ELSE "false"

IsRPCMessageAnyType(data) ==
    IF TypeOf(data) # "object" THEN "false"
    ELSE LET type == GetProp(data, "type") IN
         IF type.kind = "TypeError" THEN "TypeError"
         ELSE IF TypeOf(type) # "string"
              THEN "false"
              ELSE IF TypeOf(GetProp(data, "counter")) = "number"
                   THEN "true" ELSE "false"

\* isRPCMessage(data): the && chain, left to right, short-circuiting.
IsRPCMessage(data) ==
    IF TypeOf(data) # "object" THEN "false"
    ELSE LET type == GetProp(data, "type") IN
         IF type.kind = "TypeError" THEN "TypeError"
         ELSE IF ~(StrictEqualsString(type, "method") \/ StrictEqualsString(type, "reply"))
              THEN "false"
              ELSE LET counter == GetProp(data, "counter") IN
                   IF counter.kind = "TypeError" THEN "TypeError"
                   ELSE IF TypeOf(counter) = "number" THEN "true" ELSE "false"

----------------------------------------------------------------------------
(* The inputs of the classifier.                                           *)

TypeValues == {Absent, Undefined, Null, Str("method"), Str("reply"), Str("Method"),
               Str("event"), Num(0), Bool("true"), EmptyObject}

CounterValues == {Absent, Undefined, Null, Num(0), Num(5), NaN, Str("5"),
                  Bool("true"), EmptyObject}

OtherFields == {<<Absent, Absent>>, <<Str("a"), Num(1)>>, <<Num(7), Str("x")>>}

Primitives == {Undefined, Null, Num(0), Num(5), NaN, Str("method"), Str(""),
               Bool("true"), Bool("false")}

Objects == {Obj(k, t, c, o[1], o[2]) :
              k \in {"object", "array"}, t \in TypeValues, c \in CounterValues,
              o \in OtherFields}

Candidates == {Prim(v) : v \in Primitives} \cup Objects

IsObject(data) == data.kind \in {"object", "array"}

----------------------------------------------------------------------------
(* Bounds of the model.                                                    *)

MaxOps == 6      \* recvMessage calls, unsubscribe calls and emitted events together
MaxPosts == 2    \* IPostable.postMessage calls

Callbacks == {"cb1", "cb2"}

Senders == {"rpcA", "rpcB"}

Envelope(type, counter, serviceID) ==
    Obj("object", Str(type), Num(counter), Str(serviceID), Num(1))

\* Payloads that arrive on, or are sent over, the window channel: a protocol
\* envelope and an unrelated string.
Payloads == {Envelope("method", 5, "a"),
             Prim(Str("hello"))}

\* The optional second argument of IPostable.postMessage; "undefined" when omitted.
Targets == {"undefined", "https://app.example"}

MessageEvent(data) == [data |-> data, origin |-> "https://host.example"]

----------------------------------------------------------------------------
(* defaultReceivable                                                       *)

\* Mutant: the caller's callback itself is registered instead of a closure.
ListenerShared(sub, callback) == [closure |-> 0, callback |-> callback]

\* const _cb = ({ data }) => callback(data): a new closure per recvMessage call.
Listener(sub, callback) == [closure |-> sub, callback |-> callback]

\* Mutant: the whole event is forwarded instead of its payload.
CallbackArgumentOrigin(event) == Prim(Str(event.origin))

\* ({ data }: MessageEvent) => callback(data): the argument the callback gets.
CallbackArgument(event) == event.data

\* EventTarget.addEventListener: a listener already in the list is not added again.
AddEventListener(list, l) ==
    IF \E i \in DOMAIN list : list[i] = l THEN list ELSE Append(list, l)

\* EventTarget.removeEventListener: removes the listener if present, else does nothing.
RemoveEventListener(list, l) == SelectSeq(list, LAMBDA x : x # l)

Dispatching == queue # <<>>

RECURSIVE DetachCalls(_)
DetachCalls(n) == IF n = 0 THEN 0 ELSE subs[n].detachCalls + DetachCalls(n - 1)

\* recvMessage calls, unsubscribe calls and emitted events so far.
Ops == Len(subs) + DetachCalls(Len(subs)) + Len(events)

\* recvMessage(callback)
RecvMessage(callback) ==
    /\ Ops < MaxOps
    /\ LET _cb == Listener(Len(subs) + 1, callback) IN
         /\ listeners' = AddEventListener(listeners, _cb)
         /\ subs' = Append(subs, [callback |-> callback, listener |-> _cb,
                                  detachCalls |-> 0, createdAt |-> Len(events),
                                  detachedAt |-> 0, detachedMid |-> FALSE])
    /\ UNCHANGED <<events, queue, calls>>
    /\ UNCHANGED classifierVars
    /\ UNCHANGED postableVars

\* () => window.removeEventListener('message', _cb), the function recvMessage returned
Unsubscribe(sub) ==
    /\ sub \in DOMAIN subs
    /\ Ops < MaxOps
    /\ listeners' = RemoveEventListener(listeners, subs[sub].listener)
    /\ subs' = [subs EXCEPT ![sub] =
                  IF @.detachCalls = 0
                  THEN [@ EXCEPT !.detachCalls = 1, !.detachedAt = Len(events),
                                 !.detachedMid = Dispatching]
                  ELSE [@ EXCEPT !.detachCalls = @ + 1]]
    /\ UNCHANGED <<events, queue, calls>>
    /\ UNCHANGED classifierVars
    /\ UNCHANGED postableVars

\* The host emits a 'message' event on window: dispatch starts over a copy of
\* the listener list.
EmitMessage(data) ==
    /\ ~Dispatching
    /\ Ops < MaxOps
    /\ events' = Append(events, MessageEvent(data))
    /\ queue' = listeners
    /\ UNCHANGED <<listeners, subs, calls>>
    /\ UNCHANGED classifierVars
    /\ UNCHANGED postableVars

\* Dispatch visits the next listener of the copy: _cb runs, and calls the
\* callback, unless the listener was removed in the meantime.
InvokeListener ==
    /\ Dispatching
    /\ LET _cb == Head(queue) IN
         /\ queue' = Tail(queue)
         /\ calls' = IF \E i \in DOMAIN listeners : listeners[i] = _cb
                     THEN Append(calls, [listener |-> _cb, callback |-> _cb.callback,
                                         ev |-> Len(events),
                                         arg |-> CallbackArgument(events[Len(events)])])
                     ELSE calls
    /\ UNCHANGED <<listeners, subs, events>>
    /\ UNCHANGED classifierVars
    /\ UNCHANGED postableVars

----------------------------------------------------------------------------
(* defaultPostable                                                         *)

\* Mutant: the caller's target is passed on when given.
ParentPostArgumentsTarget(data, target) ==
    [data |-> data, targetOrigin |-> IF target = "undefined" THEN "*" ELSE target]

\* window.parent.postMessage(data, '*'): the arguments of the call.
ParentPostArguments(data, target) == [data |-> data, targetOrigin |-> "*"]

\* defaultPostable.postMessage(data, target) called by `by`.
Post(data, target, by) ==
    /\ Len(posted) < MaxPosts
    /\ LET args == ParentPostArguments(data, target) IN
         posted' = Append(posted, [to |-> "parent", data |-> args.data,
                                   targetOrigin |-> args.targetOrigin, by |-> by])
    /\ lastCall' = [n |-> lastCall.n + 1, data |-> data, target |-> target]

\* An application calls defaultPostable.postMessage directly.
PostMessage(data, target) ==
    /\ Post(data, target, "app")
    /\ UNCHANGED callCounter
    /\ UNCHANGED classifierVars
    /\ UNCHANGED receivableVars

\* Mutant: the sender reuses its counter.
NextCounterStuck(counter) == counter

\* The sender's sequence counter after it issued an envelope.
NextCounter(counter) == counter + 1

\* A sender (an RPC layer instance) issues an envelope: it stamps the envelope
\* with its counter and hands it to the outbound port.
SendEnvelope(sender, type) ==
    /\ Post(Envelope(type, callCounter[sender], sender), "undefined", sender)
    /\ callCounter' = [callCounter EXCEPT ![sender] = NextCounter(@)]
    /\ UNCHANGED classifierVars
    /\ UNCHANGED receivableVars

----------------------------------------------------------------------------
(* isRPCMessage applied to one candidate.                                  *)

Classify ==
    /\ verdict = "pending"
    /\ verdict' = IsRPCMessage(candidate)
    /\ UNCHANGED candidate
    /\ UNCHANGED receivableVars
    /\ UNCHANGED postableVars

----------------------------------------------------------------------------
(* Specifications.                                                         *)

InitPorts ==
    /\ listeners = <<>>
    /\ subs = <<>>
    /\ events = <<>>
    /\ queue = <<>>
    /\ calls = <<>>
    /\ posted = <<>>
    /\ lastCall = [n |-> 0, data |-> Prim(Undefined), target |-> "undefined"]
    /\ callCounter = [s \in Senders |-> 0]

\* The ports after module load; the classifier is not exercised.
Init ==
    /\ candidate = Prim(Undefined)
    /\ verdict = "idle"
    /\ InitPorts

Next ==
    \/ \E callback \in Callbacks : RecvMessage(callback)
    \/ \E sub \in DOMAIN subs : Unsubscribe(sub)
    \/ \E data \in Payloads : EmitMessage(data)
    \/ InvokeListener

\* The inbound port: subscriptions, unsubscriptions and incoming events.
Spec == Init /\ [][Next]_vars

NextPostable ==
    \/ \E callback \in Callbacks : RecvMessage(callback)
    \/ \E sub \in DOMAIN subs : Unsubscribe(sub)
    \/ \E data \in Payloads, target \in Targets : PostMessage(data, target)
    \/ \E sender \in Senders, type \in {"method", "reply"} : SendEnvelope(sender, type)

\* The outbound port, next to subscriptions being made and released.
SpecPostable == Init /\ [][NextPostable]_vars

\* The classifier applied to any one candidate.
InitClassifier ==
    /\ candidate \in Candidates
    /\ verdict = "pending"
    /\ InitPorts

NextClassifier == Classify

SpecClassifier == InitClassifier /\ [][NextClassifier]_vars

----------------------------------------------------------------------------
(* The classifier's contract (checked under SpecClassifier).               *)

Classified == verdict # "pending"

ValidType(data) ==
    data.props.type \in {Str("method"), Str("reply")}

NumericCounter(data) == data.props.counter.kind = "number"

\* C1: for every candidate that is not an object (null, undefined or a
\* primitive) isRPCMessage returns false and raises no fault.
C1_NonObjectRejected ==
    (Classified /\ ~IsObject(candidate)) => verdict = "false"

\* C2: every object whose type is exactly "method" or "reply" and whose
\* counter is a number is accepted, whatever its other fields are.
C2_ValidEnvelopeAccepted ==
    (Classified /\ IsObject(candidate) /\ ValidType(candidate)
       /\ NumericCounter(candidate))
    => verdict = "true"

C2_Witness ==
    /\ verdict = "true"
    /\ candidate = Obj("object", Str("reply"), Num(0), Absent, Absent)

\* C3: every object with a valid type whose counter is missing or is not a
\* number is rejected.
C3_BadCounterRejected ==
    (Classified /\ IsObject(candidate) /\ ValidType(candidate)
       /\ ~NumericCounter(candidate))
    => verdict = "false"

C3_Witness ==
    /\ verdict = "false"
    /\ candidate = Obj("object", Str("method"), Str("5"), Str("a"), Num(1))

\* C4: every object without a type field, or whose type is anything but
\* exactly "method" or "reply", is rejected, even with a numeric counter.
C4_BadTypeRejected ==
    (Classified /\ IsObject(candidate) /\ ~ValidType(candidate))
    => verdict = "false"

C4_Witness ==
    /\ verdict = "false"
    /\ candidate = Obj("object", Str("Method"), Num(5), Str("a"), Num(1))

----------------------------------------------------------------------------
(* The inbound port's contract (checked under Spec).                       *)

\* The events whose dispatch is over.
CompletedEvents ==
    IF Dispatching THEN 1..(Len(events) - 1) ELSE 1..Len(events)

\* How often listener l invoked its callback for event e.
CallsOf(l, e) ==
    Cardinality({i \in DOMAIN calls : calls[i].listener = l /\ calls[i].ev = e})

\* How often the callback function was invoked for event e.
CallbackCalls(callback, e) ==
    Cardinality({i \in DOMAIN calls : calls[i].callback = callback /\ calls[i].ev = e})

Detached(sub) == subs[sub].detachCalls > 0

\* The subscription was made before event e was emitted and was not
\* detached before e was emitted.
ActiveAtEmit(sub, e) ==
    /\ subs[sub].createdAt < e
    /\ Detached(sub) => subs[sub].detachedAt >= e

\* The subscription stayed active during the whole dispatch of event e.
ActiveThroughout(sub, e) ==
    /\ subs[sub].createdAt < e
    /\ Detached(sub) =>
         \/ subs[sub].detachedAt > e
         \/ subs[sub].detachedAt = e /\ ~subs[sub].detachedMid

\* C5 as stated: once a subscription is detached, the callback passed to
\* that recvMessage call is not invoked for any event emitted afterwards.
C5_CallbackNeverInvokedAgain ==
    \A sub \in DOMAIN subs : \A i \in DOMAIN calls :
        (Detached(sub) /\ calls[i].callback = subs[sub].callback)
        => calls[i].ev <= subs[sub].detachedAt

\* C5 as amended: once a subscription is detached, its listener never invokes
\* the callback for an event emitted afterwards; the callback function runs
\* for a later event only through another subscription made with the same
\* function that was active when that event was emitted.
C5_SubscriptionNeverInvokedAgain ==
    \A sub \in DOMAIN subs : \A i \in DOMAIN calls :
        (Detached(sub) /\ calls[i].callback = subs[sub].callback
           /\ calls[i].ev > subs[sub].detachedAt)
        => /\ calls[i].listener # subs[sub].listener
           /\ \E other \in DOMAIN subs :
                /\ other # sub
                /\ subs[other].listener = calls[i].listener
                /\ ActiveAtEmit(other, calls[i].ev)

C5_Witness ==
    \E sub \in DOMAIN subs :
        /\ Detached(sub)
        /\ ~Dispatching
        /\ Len(events) > subs[sub].detachedAt
        /\ \E e \in 1..subs[sub].detachedAt : CallsOf(subs[sub].listener, e) = 1
        /\ \E i \in DOMAIN calls : calls[i].ev > subs[sub].detachedAt

\* C6: a second or later call of the function recvMessage returned changes
\* nothing: the listener list stays as it was, so no other subscription's
\* listener is removed.
C6_SecondDetachChangesNothing ==
    [][\A sub \in DOMAIN subs :
          (subs[sub].detachCalls >= 1
             /\ subs'[sub].detachCalls = subs[sub].detachCalls + 1)
          => /\ listeners' = listeners
             /\ queue' = queue
             /\ calls' = calls]_vars

C6_Witness ==
    \E sub \in DOMAIN subs : \E other \in DOMAIN subs :
        /\ subs[sub].detachCalls >= 2
        /\ other > sub
        /\ subs[other].callback = subs[sub].callback
        /\ ~Detached(other)
        /\ \E i \in DOMAIN listeners : listeners[i] = subs[other].listener

\* C7: every event invokes the callback of each subscription that is active
\* once, also when two subscriptions share one callback function, and a
\* subscription stays registered until its own detachment function is called.
C7_FanOut ==
    /\ \A sub \in DOMAIN subs :
         ~Detached(sub) => \E i \in DOMAIN listeners : listeners[i] = subs[sub].listener
    /\ \A e \in CompletedEvents :
         /\ \A sub \in DOMAIN subs :
              ActiveThroughout(sub, e) => CallsOf(subs[sub].listener, e) = 1
         /\ \A callback \in Callbacks :
              CallbackCalls(callback, e) >=
                Cardinality({sub \in DOMAIN subs :
                               /\ subs[sub].callback = callback
                               /\ ActiveThroughout(sub, e)})

C7_Witness ==
    \E sub \in DOMAIN subs : \E other \in DOMAIN subs :
        /\ sub # other
        /\ subs[sub].callback = subs[other].callback
        /\ Detached(sub) /\ subs[sub].detachedAt = 1
        /\ ~Detached(other)
        /\ ~Dispatching /\ Len(events) = 2
        /\ CallsOf(subs[sub].listener, 1) = 1
        /\ CallsOf(subs[other].listener, 1) = 1
        /\ CallsOf(subs[other].listener, 2) = 1
        /\ CallbackCalls(subs[sub].callback, 1) = 2

\* C8: a subscription's callback is invoked exactly once per event while the
\* subscription is active, never more than once per event, and always with
\* the event's data unchanged, whether or not the data is an RPC message.
C8_PayloadForwardedOnce ==
    /\ \A i \in DOMAIN calls : calls[i].arg = events[calls[i].ev].data
    /\ \A sub \in DOMAIN subs : \A e \in DOMAIN events :
         /\ CallsOf(subs[sub].listener, e) <= 1
         /\ (e \in CompletedEvents /\ ActiveThroughout(sub, e))
            => \E i \in DOMAIN calls :
                  /\ calls[i].listener = subs[sub].listener
                  /\ calls[i].ev = e
                  /\ calls[i].arg = events[e].data

C8_Witness ==
    \E i \in DOMAIN calls : \E j \in DOMAIN calls :
        /\ calls[i].listener = calls[j].listener
        /\ IsRPCMessage(calls[i].arg) = "false"
        /\ IsRPCMessage(calls[j].arg) = "true"
        /\ calls[i].arg = events[calls[i].ev].data

----------------------------------------------------------------------------
(* The outbound port's contract (checked under SpecPostable).              *)

C10_PostsOnceToParent ==
    [][lastCall'.n # lastCall.n
         => /\ posted' = Append(posted, [to |-> "parent", data |-> lastCall'.data,
                                         targetOrigin |-> "*",
                                         by |-> posted'[Len(posted')].by])
            /\ listeners' = listeners
            /\ subs' = subs]_vars

C10_Witness ==
    /\ posted # <<>>
    /\ lastCall.target = "https://app.example"
    /\ posted[Len(posted)].targetOrigin = "*"
    /\ posted[Len(posted)].data = lastCall.data
    /\ listeners # <<>>

====
